---- MODULE Spec2Model ----
(***************************************************************************)
(* MedPredict AI (src/medapp.py): a Streamlit script.  Every user          *)
(* interaction re-runs the script top to bottom: it obtains the model      *)
(* registry from load_models() (wrapped in st.cache_resource), reads the   *)
(* sidebar choice and executes exactly one of the three predictor          *)
(* sections.  One action of this model is one script run.                  *)
(*                                                                         *)
(* Representation: a joblib handle is the path it was loaded from; None is *)
(* the string "None"; a call that may raise yields [raised, val];          *)
(* probabilities are numerators over ProbDenom; the floating point form    *)
(* fields bilirubin and albumin are held in tenths.                        *)
(***************************************************************************)
EXTENDS Integers, Sequences, FiniteSets, TLC

VARIABLES
    disk,       \* artifact key -> TRUE iff joblib.load of that file succeeds
    cache,      \* st.cache_resource store of load_models: <<>> or <<entry>>
    models,     \* the module-level name `models` as of the latest run
    readCount,  \* artifact key -> number of joblib.load calls made on it
    runs,       \* number of script runs started so far
    pc,         \* position of the current run: "idle" before the first run,
                \* "loaded" once line 45 has bound `models`, "done" after the
                \* run's last line, "crashed" if an exception ended it
    input,      \* what the user supplied to the latest run
    calls,      \* method calls made on handles by the latest run, in order
    oracle,     \* what the opaque model returned in the latest run
    message,    \* what the latest run's predictor section displayed
    raised,     \* exception that ended the latest run, or "none"
    diag        \* st.error diagnostics shown by load_models in the latest run

vars == <<disk, cache, models, readCount, runs, pc, input, calls, oracle, message,
          raised, diag>>

-----------------------------------------------------------------------------
(* Bounds *)

MaxRuns == 2        \* script runs per behaviour
MaxChanged == 1     \* hepatitis form fields moved away from their defaults
MaxSelected == 2    \* HIV symptoms picked in the multiselect
ProbDenom == 3      \* probabilities are k / ProbDenom, k \in 0..ProbDenom

-----------------------------------------------------------------------------
(* Values *)

None == "None"
NoConf == 0 - 1     \* the confidence of a message that shows none

Artifacts == {"hepatitis", "hiv", "vectorizer", "tb"}

Path(key) ==
    CASE key = "hepatitis"  -> "models/hepatitis_model.pkl"
      [] key = "hiv"        -> "models/hiv_model.pkl"
      [] key = "vectorizer" -> "models/vectorizer.pkl"
      [] key = "tb"         -> "models/tb_predictor_model.pkl"

Ret(v) == [raised |-> FALSE, val |-> v]

\* joblib.load(path): the handle, or an exception
joblib_load(d, key) ==
    IF d[key] THEN Ret(Path(key)) ELSE [raised |-> TRUE, val |-> None]

\* models[key] = v on a dict held as a function
SetItem(m, key, v) == (key :> v) @@ m

EmptyDict == [k \in {} |-> None]

-----------------------------------------------------------------------------
(* load_models: three try/except blocks run in sequence.  Each block       *)
(* yields the dict after it, the artifacts it read, the diagnostics it     *)
(* emitted and whether an exception escaped it.                            *)

HepatitisBlock(m, d) ==
    LET r == joblib_load(d, "hepatitis") IN
    IF r.raised
    THEN [models |-> SetItem(m, "hepatitis", None),
          reads  |-> <<"hepatitis">>,
          diag   |-> <<"Error loading Hepatitis model">>,
          raised |-> FALSE]
    ELSE [models |-> SetItem(m, "hepatitis", r.val),
          reads  |-> <<"hepatitis">>,
          diag   |-> <<>>,
          raised |-> FALSE]

\* the except clause leaves the HIV handle as loaded
HivBlock_KeepsHiv(m, d) ==
    LET a == joblib_load(d, "hiv")
        b == joblib_load(d, "vectorizer")
    IN  IF a.raised
        THEN [models |-> SetItem(SetItem(m, "vectorizer", None), "hiv", None),
              reads  |-> <<"hiv">>,
              diag   |-> <<"Error loading HIV model/vectorizer">>,
              raised |-> FALSE]
        ELSE IF b.raised
        THEN [models |-> SetItem(SetItem(m, "hiv", a.val), "vectorizer", None),
              reads  |-> <<"hiv", "vectorizer">>,
              diag   |-> <<"Error loading HIV model/vectorizer">>,
              raised |-> FALSE]
        ELSE [models |-> SetItem(SetItem(m, "hiv", a.val), "vectorizer", b.val),
              reads  |-> <<"hiv", "vectorizer">>,
              diag   |-> <<>>,
              raised |-> FALSE]

HivBlock(m, d) ==
    LET a == joblib_load(d, "hiv")
        b == joblib_load(d, "vectorizer")
    IN  IF a.raised
        THEN \* line 30 raises: line 31 is skipped, the handler sets both
             [models |-> SetItem(SetItem(m, "vectorizer", None), "hiv", None),
              reads  |-> <<"hiv">>,
              diag   |-> <<"Error loading HIV model/vectorizer">>,
              raised |-> FALSE]
        ELSE IF b.raised
        THEN \* line 30 assigned models["hiv"]; line 31 raises; the handler
             \* overwrites both
             [models |-> SetItem(SetItem(SetItem(m, "hiv", a.val),
                                         "vectorizer", None), "hiv", None),
              reads  |-> <<"hiv", "vectorizer">>,
              diag   |-> <<"Error loading HIV model/vectorizer">>,
              raised |-> FALSE]
        ELSE [models |-> SetItem(SetItem(m, "hiv", a.val), "vectorizer", b.val),
              reads  |-> <<"hiv", "vectorizer">>,
              diag   |-> <<>>,
              raised |-> FALSE]

\* the load is not wrapped in try/except
TbBlock_NoTry(m, d) ==
    LET r == joblib_load(d, "tb") IN
    IF r.raised
    THEN [models |-> m, reads |-> <<"tb">>, diag |-> <<>>, raised |-> TRUE]
    ELSE [models |-> SetItem(m, "tb", r.val),
          reads  |-> <<"tb">>,
          diag   |-> <<>>,
          raised |-> FALSE]

TbBlock(m, d) ==
    LET r == joblib_load(d, "tb") IN
    IF r.raised
    THEN [models |-> SetItem(m, "tb", None),
          reads  |-> <<"tb">>,
          diag   |-> <<"Error loading TB model">>,
          raised |-> FALSE]
    ELSE [models |-> SetItem(m, "tb", r.val),
          reads  |-> <<"tb">>,
          diag   |-> <<>>,
          raised |-> FALSE]

\* the outcome of the blocks so far followed by the outcome r of the next one
Then(acc, r) ==
    [models |-> r.models,
     reads  |-> acc.reads \o r.reads,
     diag   |-> acc.diag \o r.diag,
     raised |-> r.raised]

\* all four loads share one try block whose handler clears every entry
load_models_OneTry(d) ==
    LET order == <<"hepatitis", "hiv", "vectorizer", "tb">>
        bad   == {i \in 1..4 : ~d[order[i]]}
        stop  == IF bad = {} THEN 4
                 ELSE CHOOSE i \in bad : \A j \in bad : i <= j
    IN  [models |-> [k \in Artifacts |->
                        IF bad = {} THEN Path(k) ELSE None],
         reads  |-> SubSeq(order, 1, stop),
         diag   |-> IF bad = {} THEN <<>> ELSE <<"Error loading models">>,
         raised |-> FALSE]

\* an exception that escapes a block ends the function there
load_models(d) ==
    LET hep == HepatitisBlock(EmptyDict, d)
        hiv == IF hep.raised THEN hep ELSE Then(hep, HivBlock(hep.models, d))
        tb  == IF hiv.raised THEN hiv ELSE Then(hiv, TbBlock(hiv.models, d))
    IN  tb

\* the function body runs on every call: nothing is stored
cached_load_models_NoCache(c, d) ==
    LET r == load_models(d) IN
    [ret |-> r.models, reads |-> r.reads, diag |-> r.diag,
     raised |-> r.raised, cache |-> <<[val |-> r.models, diag |-> r.diag]>>]

\* @st.cache_resource around load_models (no arguments, so one cache entry):
\* the first call runs the body and stores the returned object together with
\* the st.error elements it emitted; later calls return the stored object
\* itself (not a copy) and replay the stored elements.  A call that raises
\* stores nothing.
cached_load_models(c, d) ==
    IF c # <<>>
    THEN [ret |-> c[1].val, reads |-> <<>>, diag |-> c[1].diag,
          raised |-> FALSE, cache |-> c]
    ELSE LET r == load_models(d) IN
         IF r.raised
         THEN [ret |-> EmptyDict, reads |-> r.reads, diag |-> r.diag,
               raised |-> TRUE, cache |-> <<>>]
         ELSE [ret |-> r.models, reads |-> r.reads, diag |-> r.diag,
               raised |-> FALSE,
               cache |-> <<[val |-> r.models, diag |-> r.diag]>>]

-----------------------------------------------------------------------------
(* Encoders *)

TriState == {"False", "True", "Unknown"}

\* dict.get with a default instead of subscripting
map_bool_Default(val) ==
    CASE val = "False"   -> Ret(0)
      [] val = "True"    -> Ret(1)
      [] val = "Unknown" -> Ret(-1)
      [] OTHER           -> Ret(0)

\* {'False': 0, 'True': 1, 'Unknown': -1}[val]: KeyError on any other key
map_bool(val) ==
    CASE val = "False"   -> Ret(0)
      [] val = "True"    -> Ret(1)
      [] val = "Unknown" -> Ret(-1)
      [] OTHER           -> [raised |-> TRUE, val |-> 0]

map_sex(val) == IF val = "male" THEN 0 ELSE 1

-----------------------------------------------------------------------------
(* Hepatitis form *)

HepFields ==
    {"age", "sex", "steroid", "antivirals", "fatigue", "anorexia", "spiders",
     "ascites", "liver_big", "spleen_palpable", "varices", "histology",
     "bilirubin", "alk_phos", "sgot", "albumin", "protime"}

\* fields the feature list passes through map_bool
MapBoolFields ==
    {"steroid", "antivirals", "fatigue", "anorexia", "spiders", "ascites",
     "liver_big", "spleen_palpable", "varices", "histology"}

\* what each widget can return: the selectbox options, and for sliders and
\* number inputs the minimum, the default and the maximum
WidgetChoices(f) ==
    CASE f = "age"        -> {7, 40, 78}
      [] f = "sex"        -> {"male", "female"}
      [] f = "antivirals" -> {"False", "True"}
      [] f = "histology"  -> {"False", "True"}
      [] f = "bilirubin"  -> {3, 10, 80}
      [] f = "alk_phos"   -> {26, 85, 295}
      [] f = "sgot"       -> {14, 25, 648}
      [] f = "albumin"    -> {21, 40, 64}
      [] f = "protime"    -> {0, 85, 100}
      [] OTHER            -> TriState

\* values handed to the encoders directly, not through the widgets
RawChoices(f) ==
    IF f \in MapBoolFields THEN WidgetChoices(f) \cup {"Maybe"}
    ELSE IF f = "sex" THEN WidgetChoices(f) \cup {"other"}
    ELSE WidgetChoices(f)

\* every widget at its initial value
DefaultForm ==
    [age |-> 40, sex |-> "male", steroid |-> "False", antivirals |-> "False",
     fatigue |-> "False", anorexia |-> "False", spiders |-> "False",
     ascites |-> "False", liver_big |-> "False", spleen_palpable |-> "False",
     varices |-> "False", histology |-> "False", bilirubin |-> 10,
     alk_phos |-> 85, sgot |-> 25, albumin |-> 40, protime |-> 85]

RECURSIVE FormsWithin(_, _)
FormsWithin(k, raw) ==
    IF k = 0 THEN {DefaultForm}
    ELSE LET prev == FormsWithin(k - 1, raw) IN
         prev \cup
         UNION {{[g EXCEPT ![f] = v] :
                    v \in IF raw THEN RawChoices(f) ELSE WidgetChoices(f)} :
                <<g, f>> \in prev \X HepFields}

HepForms == FormsWithin(MaxChanged, FALSE)
RawHepForms == FormsWithin(MaxChanged, TRUE)

\* the list in the order of the form's widgets
features_WidgetOrder(form) ==
    LET F == << Ret(form.age), Ret(map_sex(form.sex)), map_bool(form.steroid),
                map_bool(form.antivirals), map_bool(form.fatigue),
                map_bool(form.anorexia), map_bool(form.spiders),
                map_bool(form.ascites), map_bool(form.liver_big),
                map_bool(form.spleen_palpable), map_bool(form.varices),
                map_bool(form.histology), Ret(form.bilirubin),
                Ret(form.alk_phos), Ret(form.sgot), Ret(form.albumin),
                Ret(form.protime) >>
    IN  [raised |-> \E i \in DOMAIN F : F[i].raised,
         val    |-> [i \in DOMAIN F |-> F[i].val]]

\* the list literal `features`: the elements' values in the order written,
\* or the KeyError of an element's map_bool
features(form) ==
    LET F == << Ret(form.age), Ret(map_sex(form.sex)), map_bool(form.steroid),
                map_bool(form.antivirals), map_bool(form.fatigue),
                map_bool(form.anorexia), map_bool(form.liver_big),
                map_bool(form.spleen_palpable), map_bool(form.spiders),
                map_bool(form.ascites), map_bool(form.varices),
                map_bool(form.histology), Ret(form.bilirubin),
                Ret(form.alk_phos), Ret(form.sgot), Ret(form.albumin),
                Ret(form.protime) >>
    IN  [raised |-> \E i \in DOMAIN F : F[i].raised,
         val    |-> [i \in DOMAIN F |-> F[i].val]]

-----------------------------------------------------------------------------
(* The opaque models *)

Labels == {0, 1}

\* predict_proba(...)[0]: one probability per class, summing to one
Dists == {[c \in Labels |-> IF c = 0 THEN k ELSE ProbDenom - k] :
             k \in 0..ProbDenom}

NoOracle == [pred |-> NoConf, proba |-> [c \in Labels |-> 0]]

MaxOf(proba) == CHOOSE p \in {proba[c] : c \in Labels} :
                    \A c \in Labels : proba[c] <= p

\* f"{prob:.2%}": the percentage to two decimals, held in hundredths of a
\* percent
Percent(p) == (2 * 10000 * p + ProbDenom) \div (2 * ProbDenom)

Call(k, handle, meth, a) ==
    [key |-> k, receiver |-> handle, method |-> meth, arg |-> a]

Msg(k, t, p) ==
    [kind |-> k, text |-> t, prob |-> p,
     pct  |-> IF p = NoConf THEN NoConf ELSE Percent(p)]

NoMsg == Msg("none", "", NoConf)

\* a predictor section that displays msg and calls nothing
Shown(m, msg) ==
    [calls |-> <<>>, oracle |-> NoOracle, message |-> msg, raised |-> "none",
     models |-> m]

-----------------------------------------------------------------------------
(* Predictor sections: each yields the calls it made, the model outputs it *)
(* consumed, the message it displayed, the exception that escaped it and   *)
(* the registry dict as it leaves it.                                      *)

\* no check that the handle is present
HepatitisSection_NoGuard(m, form, submit, pred) ==
    IF ~submit THEN Shown(m, NoMsg)
    ELSE LET enc == features(form) IN
         IF enc.raised
         THEN [Shown(m, NoMsg) EXCEPT !.raised = "KeyError"]
         ELSE [calls   |-> <<Call("hepatitis", m["hepatitis"], "predict",
                                  enc.val)>>,
               oracle  |-> [NoOracle EXCEPT !.pred = pred],
               message |-> IF pred = 1
                           THEN Msg("success", "Favorable Prognosis", NoConf)
                           ELSE Msg("error", "Concerning Prognosis", NoConf),
               raised  |-> "none",
               models  |-> m]

HepatitisSection(m, form, submit, pred) ==
    IF m["hepatitis"] = None
    THEN Shown(m, Msg("error", "Hepatitis model not found.", NoConf))
    ELSE IF ~submit THEN Shown(m, NoMsg)
    ELSE LET enc == features(form) IN
         IF enc.raised
         THEN [Shown(m, NoMsg) EXCEPT !.raised = "KeyError"]
         ELSE [calls   |-> <<Call("hepatitis", m["hepatitis"], "predict",
                                  enc.val)>>,
               oracle  |-> [NoOracle EXCEPT !.pred = pred],
               message |-> IF pred = 1
                           THEN Msg("success", "Favorable Prognosis", NoConf)
                           ELSE Msg("error", "Concerning Prognosis", NoConf),
               raised  |-> "none",
               models  |-> m]

symptoms ==
    <<"Fever", "Night Sweats", "Fatigue", "Weight Loss", "Diarrhea",
      "Skin Lesions", "Oral Candidiasis", "Lymph Nodes", "Neuro Symptoms",
      "Opportunistic Infections">>

\* ", ".join(selected)
RECURSIVE Join(_)
Join(sel) ==
    IF sel = <<>> THEN ""
    ELSE IF Len(sel) = 1 THEN sel[1]
    ELSE sel[1] \o ", " \o Join(Tail(sel))

\* what st.multiselect can return: distinct options, in the order picked
RECURSIVE SelectionsOf(_)
SelectionsOf(n) ==
    IF n = 0 THEN {<<>>}
    ELSE LET prev == SelectionsOf(n - 1) IN
         prev \cup
         {Append(s, symptoms[i]) :
             <<s, i>> \in {<<t, j>> \in prev \X DOMAIN symptoms :
                              /\ Len(t) = n - 1
                              /\ \A k \in DOMAIN t : t[k] # symptoms[j]}}

Selections == SelectionsOf(MaxSelected)

\* the empty selection is not rejected
HivSection_NoEmptyCheck(m, selected, pressed, pred, proba) ==
    IF m["hiv"] = None \/ m["vectorizer"] = None
    THEN Shown(m, Msg("error", "Model or vectorizer not found.", NoConf))
    ELSE IF ~pressed THEN Shown(m, NoMsg)
    ELSE LET text == Join(selected)
             vec  == <<"transform", text>>
             prob == proba[pred]
         IN  [calls   |-> <<Call("vectorizer", m["vectorizer"], "transform",
                                 <<text>>),
                            Call("hiv", m["hiv"], "predict", vec),
                            Call("hiv", m["hiv"], "predict_proba", vec)>>,
              oracle  |-> [pred |-> pred, proba |-> proba],
              message |-> IF pred = 1 THEN Msg("error", "High Risk", prob)
                          ELSE Msg("success", "Low Risk", prob),
              raised  |-> "none",
              models  |-> m]

\* the confidence is the largest class probability
HivSection_MaxProb(m, selected, pressed, pred, proba) ==
    IF m["hiv"] = None \/ m["vectorizer"] = None
    THEN Shown(m, Msg("error", "Model or vectorizer not found.", NoConf))
    ELSE IF ~pressed THEN Shown(m, NoMsg)
    ELSE IF selected = <<>>
    THEN Shown(m, Msg("warning", "Please select symptoms", NoConf))
    ELSE LET text == Join(selected)
             vec  == <<"transform", text>>
             prob == MaxOf(proba)
         IN  [calls   |-> <<Call("vectorizer", m["vectorizer"], "transform",
                                 <<text>>),
                            Call("hiv", m["hiv"], "predict", vec),
                            Call("hiv", m["hiv"], "predict_proba", vec)>>,
              oracle  |-> [pred |-> pred, proba |-> proba],
              message |-> IF pred = 1 THEN Msg("error", "High Risk", prob)
                          ELSE Msg("success", "Low Risk", prob),
              raised  |-> "none",
              models  |-> m]

\* the empty-selection branch clears the HIV entry of the registry
HivSection_ClearsHandle(m, selected, pressed, pred, proba) ==
    IF m["hiv"] = None \/ m["vectorizer"] = None
    THEN Shown(m, Msg("error", "Model or vectorizer not found.", NoConf))
    ELSE IF ~pressed THEN Shown(m, NoMsg)
    ELSE IF selected = <<>>
    THEN Shown([m EXCEPT !["hiv"] = None], Msg("warning", "Please select symptoms", NoConf))
    ELSE LET text == Join(selected)
             vec  == <<"transform", text>>
             prob == proba[pred]
         IN  [calls   |-> <<Call("vectorizer", m["vectorizer"], "transform",
                                 <<text>>),
                            Call("hiv", m["hiv"], "predict", vec),
                            Call("hiv", m["hiv"], "predict_proba", vec)>>,
              oracle  |-> [pred |-> pred, proba |-> proba],
              message |-> IF pred = 1 THEN Msg("error", "High Risk", prob)
                          ELSE Msg("success", "Low Risk", prob),
              raised  |-> "none",
              models  |-> m]

\* the vector the vectorizer returns is opaque: it is held as the text it
\* was built from
HivSection(m, selected, pressed, pred, proba) ==
    IF m["hiv"] = None \/ m["vectorizer"] = None
    THEN Shown(m, Msg("error", "Model or vectorizer not found.", NoConf))
    ELSE IF ~pressed THEN Shown(m, NoMsg)
    ELSE IF selected = <<>>
    THEN Shown(m, Msg("warning", "Please select symptoms", NoConf))
    ELSE LET text == Join(selected)
             vec  == <<"transform", text>>
             prob == proba[pred]
         IN  [calls   |-> <<Call("vectorizer", m["vectorizer"], "transform",
                                 <<text>>),
                            Call("hiv", m["hiv"], "predict", vec),
                            Call("hiv", m["hiv"], "predict_proba", vec)>>,
              oracle  |-> [pred |-> pred, proba |-> proba],
              message |-> IF pred = 1 THEN Msg("error", "High Risk", prob)
                          ELSE Msg("success", "Low Risk", prob),
              raised  |-> "none",
              models  |-> m]

tb_symptoms ==
    <<"Fever", "Cough", "Night Sweats", "Weight Loss", "Chest Pain",
      "Hemoptysis", "Fatigue", "Lymphadenopathy">>

\* one selectbox per symptom
TbVals == [DOMAIN tb_symptoms -> {"Absent", "Present"}]

TuberculosisSection(m, vals, pressed, pred, proba) ==
    IF m["tb"] = None
    THEN Shown(m, Msg("error", "TB model not found.", NoConf))
    ELSE LET tb_data == [i \in DOMAIN tb_symptoms |->
                            IF vals[i] = "Present" THEN 1 ELSE 0]
         IN  IF ~pressed THEN Shown(m, NoMsg)
             ELSE LET prob == proba[pred]
                  IN  [calls   |-> <<Call("tb", m["tb"], "predict", tb_data),
                                     Call("tb", m["tb"], "predict_proba",
                                          tb_data)>>,
                       oracle  |-> [pred |-> pred, proba |-> proba],
                       message |-> IF pred = 1
                                   THEN Msg("error", "High TB Risk", prob)
                                   ELSE Msg("success", "Low TB Risk", prob),
                       raised  |-> "none",
                       models  |-> m]

-----------------------------------------------------------------------------
(* One script run *)

Count(seq, a) == Cardinality({i \in DOMAIN seq : seq[i] = a})

\* the if / elif chain on the sidebar choice
Section(m, inp, pred, proba) ==
    CASE inp.choice = "Hepatitis" ->
            HepatitisSection(m, inp.data, inp.pressed, pred)
      [] inp.choice = "HIV" ->
            HivSection(m, inp.data, inp.pressed, pred, proba)
      [] inp.choice = "Tuberculosis" ->
            TuberculosisSection(m, inp.data, inp.pressed, pred, proba)

RunInput(c, p, d) == [choice |-> c, pressed |-> p, data |-> d]

NoInput == RunInput("none", FALSE, <<>>)

\* A script run starts: the page is cleared and line 45 binds `models` to
\* what the cached load_models returns.
StartRun ==
    /\ pc # "loaded"
    /\ runs < MaxRuns
    /\ LET L == cached_load_models(cache, disk) IN
       /\ cache' = L.cache
       /\ models' = L.ret
       /\ readCount' = [a \in Artifacts |-> readCount[a] + Count(L.reads, a)]
       /\ diag' = L.diag
       /\ pc' = IF L.raised THEN "crashed" ELSE "loaded"
       /\ raised' = IF L.raised THEN "Exception" ELSE "none"
    /\ runs' = runs + 1
    /\ input' = NoInput
    /\ calls' = <<>>
    /\ oracle' = NoOracle
    /\ message' = NoMsg
    /\ UNCHANGED disk

\* The rest of the run, from the sidebar to the last line.  `models` names
\* the cached object itself, so what a section does to the dict is done to
\* the cache entry.

\* the sidebar is on Hepatitis
HepatitisRun ==
    /\ pc = "loaded"
    /\ \E form \in HepForms, submit \in BOOLEAN, pred \in Labels :
        LET inp == RunInput("Hepatitis", submit, form)
            S   == Section(models, inp, pred, NoOracle.proba)
        IN  /\ input' = inp
            /\ models' = S.models
            /\ cache' = <<[cache[1] EXCEPT !.val = S.models]>>
            /\ calls' = S.calls
            /\ oracle' = S.oracle
            /\ message' = S.message
            /\ raised' = S.raised
            /\ pc' = IF S.raised = "none" THEN "done" ELSE "crashed"
    /\ UNCHANGED <<disk, readCount, runs, diag>>

\* a hepatitis submission of values the widgets do not offer
RawHepatitisRun ==
    /\ pc = "loaded"
    /\ \E form \in RawHepForms, pred \in Labels :
        LET inp == RunInput("Hepatitis", TRUE, form)
            S   == Section(models, inp, pred, NoOracle.proba)
        IN  /\ input' = inp
            /\ models' = S.models
            /\ cache' = <<[cache[1] EXCEPT !.val = S.models]>>
            /\ calls' = S.calls
            /\ oracle' = S.oracle
            /\ message' = S.message
            /\ raised' = S.raised
            /\ pc' = IF S.raised = "none" THEN "done" ELSE "crashed"
    /\ UNCHANGED <<disk, readCount, runs, diag>>

\* the sidebar is on HIV
HivRun ==
    /\ pc = "loaded"
    /\ \E selected \in Selections, pressed \in BOOLEAN, pred \in Labels,
          proba \in Dists :
        LET inp == RunInput("HIV", pressed, selected)
            S   == Section(models, inp, pred, proba)
        IN  /\ input' = inp
            /\ models' = S.models
            /\ cache' = <<[cache[1] EXCEPT !.val = S.models]>>
            /\ calls' = S.calls
            /\ oracle' = S.oracle
            /\ message' = S.message
            /\ raised' = S.raised
            /\ pc' = IF S.raised = "none" THEN "done" ELSE "crashed"
    /\ UNCHANGED <<disk, readCount, runs, diag>>

\* the sidebar is on Tuberculosis
TuberculosisRun ==
    /\ pc = "loaded"
    /\ \E vals \in TbVals, pressed \in BOOLEAN, pred \in Labels,
          proba \in Dists :
        LET inp == RunInput("Tuberculosis", pressed, vals)
            S   == Section(models, inp, pred, proba)
        IN  /\ input' = inp
            /\ models' = S.models
            /\ cache' = <<[cache[1] EXCEPT !.val = S.models]>>
            /\ calls' = S.calls
            /\ oracle' = S.oracle
            /\ message' = S.message
            /\ raised' = S.raised
            /\ pc' = IF S.raised = "none" THEN "done" ELSE "crashed"
    /\ UNCHANGED <<disk, readCount, runs, diag>>

Init ==
    /\ disk \in [Artifacts -> BOOLEAN]
    /\ cache = <<>>
    /\ models = EmptyDict
    /\ readCount = [a \in Artifacts |-> 0]
    /\ runs = 0
    /\ pc = "idle"
    /\ input = NoInput
    /\ calls = <<>>
    /\ oracle = NoOracle
    /\ message = NoMsg
    /\ raised = "none"
    /\ diag = <<>>

Next == StartRun \/ HepatitisRun \/ HivRun \/ TuberculosisRun

Spec == Init /\ [][Next]_vars

NextRaw == StartRun \/ RawHepatitisRun \/ HivRun \/ TuberculosisRun

SpecRaw == Init /\ [][NextRaw]_vars

-----------------------------------------------------------------------------
(* Properties *)

\* load_models has returned in some run
Loaded == cache # <<>>

\* a disease's analysis is offered: its handle, and for HIV the vectorizer
\* too, is not None
Available(m, disease) ==
    IF disease = "hiv" THEN m["hiv"] # None /\ m["vectorizer"] # None
    ELSE m[disease] # None

Diseases == {"hepatitis", "hiv", "tb"}

Failing == {a \in Artifacts : ~disk[a]}

\* C1: load_models never raises, whatever subset of the four loads fails;
\* the hepatitis entry is a handle exactly when the hepatitis load succeeds
\* and the TB entry exactly when the TB load succeeds; a failure in one
\* try block does not keep the later blocks from reading their first file.
C1_LoadNeverRaises ==
    runs > 0 =>
        /\ raised # "Exception"
        /\ Loaded
        /\ DOMAIN models = Artifacts
        /\ (models["hepatitis"] # None) <=> disk["hepatitis"]
        /\ (models["tb"] # None) <=> disk["tb"]
        /\ readCount["hepatitis"] = 1
        /\ readCount["hiv"] = 1
        /\ readCount["tb"] = 1
        /\ Len(cache[1].diag) = Cardinality({b \in Diseases : ~Available(models, b)})

C1_Witness ==
    /\ pc = "loaded"
    /\ ~disk["hepatitis"] /\ ~disk["hiv"] /\ disk["tb"]
    /\ models["hepatitis"] = None
    /\ models["tb"] = Path("tb")
    /\ Len(diag) = 2

\* C2: when exactly one of the four artifacts fails to load, exactly one of
\* the three diseases is unavailable and the other two are available.
C2_OneFailureOneUnavailable ==
    (Loaded /\ Cardinality(Failing) = 1) =>
        Cardinality({b \in Diseases : ~Available(models, b)}) = 1

C2_Witness ==
    /\ pc = "loaded"
    /\ Failing = {"vectorizer"}
    /\ ~Available(models, "hiv")
    /\ Available(models, "hepatitis")
    /\ Available(models, "tb")

\* the 17 fields in the order section 4.3 of the specification lists them
SpecOrder ==
    <<"age", "sex", "steroid", "antivirals", "fatigue", "anorexia", "spiders",
      "ascites", "liver_big", "spleen_palpable", "varices", "histology",
      "bilirubin", "alk_phos", "sgot", "albumin", "protime">>

\* the same fields with liver-enlarged and spleen-palpable ahead of spiders
\* and ascites
ListOrder ==
    <<"age", "sex", "steroid", "antivirals", "fatigue", "anorexia",
      "liver_big", "spleen_palpable", "spiders", "ascites", "varices",
      "histology", "bilirubin", "alk_phos", "sgot", "albumin", "protime">>

\* the encoded value of one field of a form
Encoded(form, f) ==
    IF f = "sex" THEN map_sex(form[f])
    ELSE IF f \in MapBoolFields THEN map_bool(form[f]).val
    ELSE form[f]

\* a hepatitis submission with the model present
HepSubmitted ==
    /\ input.choice = "Hepatitis"
    /\ input.pressed
    /\ models["hepatitis"] # None

\* the list passed to predict carries the fields in the given order
PassedInOrder(order) ==
    /\ Len(calls) = 1
    /\ calls[1].method = "predict"
    /\ DOMAIN calls[1].arg = 1..17
    /\ \A i \in 1..17 : calls[1].arg[i] = Encoded(input.data, order[i])

\* C3 as stated: the list passed to predict carries the 17 fields in the
\* order of the specification.
C3_SpecOrder == HepSubmitted => PassedInOrder(SpecOrder)

\* C3 as amended: the list passed to predict carries the 17 fields with
\* liver-enlarged and spleen-palpable at positions 7 and 8, spiders and
\* ascites at positions 9 and 10, and the other fields where the
\* specification puts them.
C3_ListOrder == HepSubmitted => PassedInOrder(ListOrder)

C3_Witness ==
    /\ HepSubmitted
    /\ input.data["liver_big"] = "Unknown"
    /\ input.data["spiders"] = "False"
    /\ Len(calls) = 1
    /\ calls[1].arg[7] = 0 - 1
    /\ calls[1].arg[9] = 0

\* the run made an inference on the HIV or the TB model
Inferred ==
    /\ input.choice \in {"HIV", "Tuberculosis"}
    /\ calls # <<>>

\* C4: the confidence the HIV and TB predictors report is the probability
\* the model gives the class it predicted, and not the largest class
\* probability when the two differ.
C4_ConfidenceOfPredicted ==
    Inferred =>
        LET p == oracle.proba[oracle.pred] IN
        /\ message.prob = p
        /\ message.pct = Percent(p)
        /\ p # MaxOf(oracle.proba) => message.prob # MaxOf(oracle.proba)
        /\ message.text \in (IF oracle.pred = 1
                             THEN {"High Risk", "High TB Risk"}
                             ELSE {"Low Risk", "Low TB Risk"})

C4_Witness ==
    /\ Inferred
    /\ input.choice = "HIV"
    /\ oracle.pred = 1
    /\ oracle.proba[1] < oracle.proba[0]
    /\ message.prob = oracle.proba[1]

Methods(cs) == [i \in DOMAIN cs |-> cs[i].method]

\* C5: an HIV submission with nothing selected shows the warning and makes
\* no call on the vectorizer or the model; with something selected it
\* transforms, predicts and reports a risk.
C5_EmptySelectionNoInference ==
    (input.choice = "HIV" /\ input.pressed /\ Available(models, "hiv")) =>
        IF input.data = <<>>
        THEN /\ message = Msg("warning", "Please select symptoms", NoConf)
             /\ calls = <<>>
             /\ oracle = NoOracle
        ELSE /\ Methods(calls) = <<"transform", "predict", "predict_proba">>
             /\ calls[1].arg = <<Join(input.data)>>
             /\ message.text \in {"High Risk", "Low Risk"}

C5_Witness ==
    /\ input.choice = "HIV"
    /\ input.pressed
    /\ input.data = <<>>
    /\ message.kind = "warning"

\* the handle the latest run's section needs is missing
RequiredAbsent ==
    CASE input.choice = "Hepatitis"    -> ~Available(models, "hepatitis")
      [] input.choice = "HIV"          -> ~Available(models, "hiv")
      [] input.choice = "Tuberculosis" -> ~Available(models, "tb")
      [] OTHER                         -> FALSE

\* C6: every call a predictor makes is made on a handle that is present, and
\* a predictor whose handle is absent reports that and calls nothing.
C6_NoCallOnAbsentHandle ==
    /\ \A i \in DOMAIN calls :
          /\ calls[i].receiver # None
          /\ calls[i].receiver = models[calls[i].key]
    /\ (input.choice = "HIV" /\ calls # <<>>) =>
          (models["hiv"] # None /\ models["vectorizer"] # None)
    /\ RequiredAbsent =>
          /\ calls = <<>>
          /\ message.kind = "error"
          /\ message.text \in {"Hepatitis model not found.",
                               "Model or vectorizer not found.",
                               "TB model not found."}

C6_Witness ==
    /\ input.choice = "Hepatitis"
    /\ input.pressed
    /\ models["hepatitis"] = None
    /\ message.text = "Hepatitis model not found."
    /\ calls = <<>>

\* the code of a tri-state value
TriCode(v) == CASE v = "False" -> 0 [] v = "True" -> 1 [] v = "Unknown" -> 0 - 1

\* C7: map_bool returns 0, 1, -1 on "False", "True", "Unknown" and raises
\* on anything else, so a hepatitis submission with such a value ends in the
\* error and calls nothing.
C7_MapBoolStrict ==
    HepSubmitted =>
        LET bad == {f \in MapBoolFields : input.data[f] \notin TriState} IN
        IF bad # {}
        THEN /\ raised = "KeyError"
             /\ calls = <<>>
             /\ message = NoMsg
        ELSE /\ raised = "none"
             /\ Len(calls) = 1
             /\ \A i \in DOMAIN ListOrder :
                   ListOrder[i] \in MapBoolFields =>
                       calls[1].arg[i] = TriCode(input.data[ListOrder[i]])

C7_Witness ==
    /\ HepSubmitted
    /\ input.data["steroid"] = "Maybe"
    /\ raised = "KeyError"
    /\ calls = <<>>

\* C8: each artifact is read at most once; once the first call of
\* load_models has returned, no later step reads an artifact and every later
\* call returns the registry the first one returned.
C8_LoadedOnce ==
    /\ [](\A a \in Artifacts : readCount[a] <= 1)
    /\ [][Loaded => /\ readCount' = readCount
                    /\ runs' > runs => models' = cache[1].val]_vars

C8_Witness ==
    /\ runs >= 2
    /\ pc = "loaded"
    /\ readCount["tb"] = 1
    /\ ~disk["tb"]
    /\ models["tb"] = None

\* C9: the HIV model and the vectorizer are both present or both None; a
\* loaded HIV model whose vectorizer fails to load is dropped.
C9_HivPairTogether ==
    Loaded =>
        /\ (models["hiv"] = None) <=> (models["vectorizer"] = None)
        /\ (models["hiv"] # None) <=> (disk["hiv"] /\ disk["vectorizer"])

C9_Witness ==
    /\ pc = "loaded"
    /\ disk["hiv"]
    /\ ~disk["vectorizer"]
    /\ models["hiv"] = None
    /\ models["vectorizer"] = None

\* C10: no predictor section changes the registry: across every step after
\* line 45 the cached dict and `models` keep their four entries.
C10_RegistryReadOnly ==
    [][pc = "loaded" => /\ models' = models
                        /\ cache' = cache
                        /\ DOMAIN models' = Artifacts]_vars

C10_Witness ==
    /\ runs >= 2
    /\ pc = "done"
    /\ input.choice = "HIV"
    /\ message.kind = "warning"
    /\ models = cache[1].val

=============================================================================
